---- MODULE Spec2Model ----
(***************************************************************************)
(* Metadata ETL tasks of cumulusci/tasks/metadata_etl/base.py:             *)
(* BaseMetadataETLTask._run_task and its three variants, with the          *)
(* single-entity transform (MetadataSingleEntityTransformTask) in detail,  *)
(* the text of the manifest (_get_package_xml_content, SpecRender) and     *)
(* get_new_tag_index with a caller that inserts (SpecTree).                *)
(*                                                                         *)
(* Text is a sequence of one-character strings.  File names are records    *)
(* [dir, stem, ext] below retrieve_dir or deploy_dir.                      *)
(***************************************************************************)
EXTENDS Naturals, Integers, Sequences, FiniteSets, TLC

(* ---------------------------------------------------------------------- *)
(* Bounds of the model                                                     *)
(* ---------------------------------------------------------------------- *)

\* largest number of entries of the api_names option
MaxNames == 2

\* largest number of files in a retrieved archive
MaxFiles == 2

\* longest text the escaping round trip is enumerated over
MaxNameLen == 3

(* ---------------------------------------------------------------------- *)
(* Text, urllib.parse.quote and urllib.parse.unquote                       *)
(* ---------------------------------------------------------------------- *)

\* The namespace token "%%%NAMESPACE%%%" of cumulusci.utils.inject_namespace,
\* kept as one symbol: injection (base.py line 213) replaces every token
\* before quote (line 217) sees the text.
NamespaceToken == "%%%NAMESPACE%%%"

Wildcard == <<"*">>

\* characters of urllib's _ALWAYS_SAFE that the model uses
AlwaysSafe == {"x", "y", "n", "2", "5", "8", "A", "_", ".", "-", "~"}

HexDigits == {"2", "5", "8", "A"}

\* '%{:02X}' of the character's byte, without the percent sign
HexOf(c) ==
    CASE c = "(" -> <<"2", "8">>
      [] c = "%" -> <<"2", "5">>
      [] c = "*" -> <<"2", "A">>
      [] c = "\"" -> <<"2", "2">>
      [] c = "R" -> <<"5", "2">>
      [] c = "U" -> <<"5", "5">>
      [] c = "X" -> <<"5", "8">>
      [] c = "Z" -> <<"5", "A">>

\* the character of a byte given by two hex digits; a byte that is no
\* UTF-8 text on its own decodes to the replacement character
CharOf(h1, h2) ==
    CASE h1 = "2" /\ h2 = "2" -> "\""
      [] h1 = "2" /\ h2 = "5" -> "%"
      [] h1 = "2" /\ h2 = "8" -> "("
      [] h1 = "2" /\ h2 = "A" -> "*"
      [] h1 = "5" /\ h2 = "2" -> "R"
      [] h1 = "5" /\ h2 = "5" -> "U"
      [] h1 = "5" /\ h2 = "8" -> "X"
      [] h1 = "5" /\ h2 = "A" -> "Z"
      [] h1 \in {"8", "A"} -> "U+FFFD"
      [] OTHER -> "?"

\* a quote that leaves the percent sign alone
quoteKeepPercent(s, safe) ==
    LET q[i \in 0..Len(s)] ==
            IF i = 0 THEN <<>>
            ELSE IF s[i] \in AlwaysSafe \cup safe \cup {"%"}
                 THEN Append(q[i - 1], s[i])
                 ELSE q[i - 1] \o <<"%">> \o HexOf(s[i])
    IN  q[Len(s)]

\* urllib.parse.quote(s, safe=safe): every character outside the always-safe
\* set and `safe` becomes %XX
quote(s, safe) ==
    LET q[i \in 0..Len(s)] ==
            IF i = 0 THEN <<>>
            ELSE IF s[i] \in AlwaysSafe \cup safe
                 THEN Append(q[i - 1], s[i])
                 ELSE q[i - 1] \o <<"%">> \o HexOf(s[i])
    IN  q[Len(s)]

\* urllib.parse.unquote(s): %XX with two hex digits becomes the character,
\* any other percent sign stays
unquote(s) ==
    LET u[i \in 1..(Len(s) + 1)] ==
            IF i > Len(s) THEN <<>>
            ELSE IF /\ s[i] = "%"
                    /\ i + 2 <= Len(s)
                    /\ s[i + 1] \in HexDigits
                    /\ s[i + 2] \in HexDigits
                 THEN <<CharOf(s[i + 1], s[i + 2])>> \o u[i + 3]
                 ELSE <<s[i]>> \o u[i + 1]
    IN  u[1]

\* code point of a character, the order Python compares text by
CodePoint(c) ==
    CASE c = " " -> 32
      [] c = "\"" -> 34
      [] c = "%" -> 37
      [] c = "(" -> 40
      [] c = "*" -> 42
      [] c = "-" -> 45
      [] c = "." -> 46
      [] c = "2" -> 50
      [] c = "5" -> 53
      [] c = "8" -> 56
      [] c = "A" -> 65
      [] c = "R" -> 82
      [] c = "U" -> 85
      [] c = "X" -> 88
      [] c = "Z" -> 90
      [] c = "_" -> 95
      [] c = "n" -> 110
      [] c = "x" -> 120
      [] c = "y" -> 121
      [] c = "~" -> 126
      [] OTHER -> 127

\* a < b for Python str
StrLess(a, b) ==
    \E i \in 1..(Len(a) + 1) :
        /\ i <= Len(b)
        /\ \A j \in 1..(i - 1) : a[j] = b[j]
        /\ \/ i = Len(a) + 1
           \/ CodePoint(a[i]) < CodePoint(b[i])

MinName(S) == CHOOSE a \in S : \A b \in S \ {a} : StrLess(a, b)

RECURSIVE sorted(_)
\* sorted(S) of a set of str
sorted(S) == IF S = {} THEN <<>> ELSE <<MinName(S)>> \o sorted(S \ {MinName(S)})

Range(s) == {s[i] : i \in 1..Len(s)}

\* Path.stem / Path.suffix put a file name together as stem "." extension
File(dir, stem, ext) == [dir |-> dir, stem |-> stem, ext |-> ext]

(* ---------------------------------------------------------------------- *)
(* Collaborators that are not part of base.py                               *)
(* ---------------------------------------------------------------------- *)

\* cumulusci.utils.inject_namespace(name, content, namespace, managed)[1]:
\* every namespace token of the content becomes "<namespace>__" in managed
\* mode with a namespace, and the empty text otherwise.  No namespace is <<>>.
inject_namespace(content, namespace, managed) ==
    LET prefix == IF managed /\ namespace # <<>>
                  THEN namespace \o <<"_", "_">> ELSE <<>>
        r[i \in 0..Len(content)] ==
            IF i = 0 THEN <<>>
            ELSE IF content[i] = NamespaceToken
                 THEN r[i - 1] \o prefix
                 ELSE Append(r[i - 1], content[i])
    IN  r[Len(content)]

\* one subentry of PackageXmlGenerator.metadata_map
Entry(type, class, extension) ==
    [type |-> type, class |-> class, extension |-> extension]

Group(dir, entries) == [dir |-> dir, entries |-> entries]

LayoutEntry == Entry("Layout", "MetadataFilenameParser", "layout")

ObjectEntry == Entry("CustomObject", "CustomObjectParser", "object")

LabelsEntry == Entry("CustomLabels", "CustomLabelsParser", "labels")

\* metadata_map in iteration order: one group per directory
MapPlain ==
    << Group("layouts", <<LayoutEntry>>),
       Group("objects", <<ObjectEntry>>),
       Group("labels", <<LabelsEntry>>) >>

\* an entity type found in two groups, the first of which lists it after an
\* entry with another extension
MapShared ==
    << Group("objects", <<ObjectEntry, LayoutEntry>>),
       Group("layouts", <<LayoutEntry>>) >>

\* groups that hold entries of different convention classes
MapMixed ==
    << Group("layouts", <<LayoutEntry, LabelsEntry>>),
       Group("objects", <<LabelsEntry, ObjectEntry>>) >>

MetadataMaps == {MapPlain, MapShared, MapMixed}

\* values of the class attribute `entity`; "None" is the class default
Entities == {"Layout", "CustomObject", "CustomLabels", "Flow", "None"}

Extensions == {"layout", "object"}

Directories == {"layouts", "objects"}

\* entries the api_names option is made of
UserArgs ==
    { Wildcard,
      <<"x">>,
      <<"x", " ", "(">>,
      <<"%", "2", "8">>,
      <<NamespaceToken, "x">> }

\* file-name stems the org may hold beyond the ones asked for by name
OrgStems == { <<"x">>, <<"y", " ", "%", "2", "8">> }

ApiVersion == <<"4", "8", ".", "0">>

SubsetsUpTo(S, n) == {T \in SUBSET S : Cardinality(T) <= n}

(* ---------------------------------------------------------------------- *)
(* State                                                                   *)
(* ---------------------------------------------------------------------- *)

VARIABLES
    variant,            \* which class the task is an instance of
    retrieve,           \* class attribute `retrieve`
    deploy,             \* class attribute `deploy`
    options,            \* self.options as given to the task
    entity,             \* class attribute `entity`
    metadata_map,       \* PackageXmlGenerator.metadata_map
    api_names,          \* self.api_names
    pc,                 \* position in _run_task
    phases,             \* the phases executed so far, in order
    tempdir,            \* the TemporaryDirectory exists
    retrieve_dir,       \* self.retrieve_dir exists
    deploy_dir,         \* self.deploy_dir exists
    retrieved,          \* files below retrieve_dir
    retrieved_dirs,     \* directories below retrieve_dir
    deployed,           \* entity files below deploy_dir
    package_xml,        \* deploy_dir/package.xml, <<>> or <<manifest>>
    retrieve_calls,     \* the manifests handed to ApiRetrieveUnpackaged
    deploy_calls,       \* the number of calls of Deploy
    directory,          \* _transform's local `directory`
    extension,          \* _transform's local `extension`
    removed_api_names,  \* _transform's local `removed_api_names`
    pending,            \* names the for loop of _transform has yet to visit
    log,                \* the iterations of the for loop of _transform
    error,              \* the exception that left _run_task, or NoError
    result,             \* _run_task's local `result`, what _deploy returned
    post_deploy_arg,    \* the argument _post_deploy was called with
    entities,           \* a dict as a _get_entities returns it
    api_version,        \* self.api_version of the task that renders a manifest
    rendered,           \* the text _get_package_xml_content returned, <<>> or <<text>>
    root,               \* the children of tree.getroot(), in order
    tag,                \* the tag get_new_tag_index is asked about
    found,              \* what the last call of get_new_tag_index gave
    inserted_at         \* the index the caller last inserted at, <<>> or <<i>>

\* the state of a run of _run_task
runVars ==
    << variant, retrieve, deploy, options, entity, metadata_map, api_names,
       pc, phases, tempdir, retrieve_dir, deploy_dir, retrieved,
       retrieved_dirs, deployed, package_xml, retrieve_calls, deploy_calls,
       directory, extension, removed_api_names, pending, log, error,
       result, post_deploy_arg >>

\* the state of a rendering of a manifest
renderVars == << entities, api_version, rendered >>

\* the state of a document and its caller around get_new_tag_index
treeVars == << root, tag, found, inserted_at >>

\* what a run of _run_task does not touch
aside == << renderVars, treeVars >>

\* the hand-over of the deploy result to the hook
hook == << result, post_deploy_arg >>

vars == << runVars, renderVars, treeVars >>

config == << variant, retrieve, deploy, options, entity, metadata_map >>

NoError == [kind |-> "none"]

Error(kind) == [kind |-> kind]

ErrorAt(kind, path) == [kind |-> kind, path |-> path]

(* ---------------------------------------------------------------------- *)
(* Construction                                                             *)
(* ---------------------------------------------------------------------- *)

\* BaseMetadataETLTask._inject_namespace
InjectNamespace(text, opts) ==
    inject_namespace(text, opts.namespace_inject, opts.managed)

\* process_list_arg(self.options.get("api_names", ["*"])) as a set
ApiNamesOption(opts) ==
    IF opts.has_api_names THEN opts.api_names ELSE {Wildcard}

\* an _init_options whose quote leaves the percent sign unquoted
InitApiNamesKeepPercent(opts) ==
    LET injected == {InjectNamespace(arg, opts) : arg \in ApiNamesOption(opts)}
    IN  {IF arg # Wildcard THEN quoteKeepPercent(arg, {" "}) ELSE arg : arg \in injected}

\* MetadataSingleEntityTransformTask._init_options: self.api_names
InitApiNames(opts) ==
    LET injected == {InjectNamespace(arg, opts) : arg \in ApiNamesOption(opts)}
    IN  {IF arg # Wildcard THEN quote(arg, {" "}) ELSE arg : arg \in injected}

OptionSets ==
    { [has_api_names |-> h, api_names |-> a, managed |-> m[1], namespace_inject |-> m[2]] :
        h \in BOOLEAN,
        a \in SubsetsUpTo(UserArgs, MaxNames),
        m \in {<<FALSE, <<>>>>, <<TRUE, <<"n">>>>} }

NoOptions ==
    [has_api_names |-> FALSE, api_names |-> {}, managed |-> FALSE, namespace_inject |-> <<>>]

\* no result: _deploy has not returned
NoResult == [call |-> 0]

\* no manifest is being rendered
RenderIdle ==
    /\ entities = <<>>
    /\ api_version = ApiVersion
    /\ rendered = <<>>

\* no document is at hand
TreeIdle ==
    /\ root = <<>>
    /\ tag = "T"
    /\ found = [kind |-> "none"]
    /\ inserted_at = <<>>

\* no task is running
RunIdle ==
    /\ variant = "custom"
    /\ retrieve = FALSE
    /\ deploy = FALSE
    /\ options = NoOptions
    /\ entity = "None"
    /\ metadata_map = MapPlain
    /\ api_names = {}
    /\ pc = "done"
    /\ phases = <<>>
    /\ tempdir = FALSE
    /\ retrieve_dir = FALSE
    /\ deploy_dir = FALSE
    /\ retrieved = {}
    /\ retrieved_dirs = {}
    /\ deployed = {}
    /\ package_xml = <<>>
    /\ retrieve_calls = <<>>
    /\ deploy_calls = 0
    /\ directory = ""
    /\ extension = ""
    /\ removed_api_names = {}
    /\ pending = {}
    /\ log = <<>>
    /\ error = NoError
    /\ result = NoResult
    /\ post_deploy_arg = <<>>

Init ==
    /\ \/ /\ variant = "custom"
          /\ retrieve \in BOOLEAN
          /\ deploy \in BOOLEAN
          /\ options = NoOptions
          /\ entity = "None"
          /\ metadata_map = MapPlain
          /\ api_names = {}
       \/ /\ variant = "synthesis"
          /\ retrieve = FALSE
          /\ deploy = TRUE
          /\ options \in {o \in OptionSets : ~o.has_api_names /\ o.api_names = {}}
          /\ entity = "None"
          /\ metadata_map = MapPlain
          /\ api_names = {}
       \/ /\ variant = "transform"
          /\ retrieve = TRUE
          /\ deploy = TRUE
          /\ options = NoOptions
          /\ entity = "None"
          /\ metadata_map = MapPlain
          /\ api_names = {}
       \/ /\ variant = "single"
          /\ retrieve = TRUE
          /\ deploy = TRUE
          /\ options \in {o \in OptionSets : o.has_api_names \/ o.api_names = {}}
          /\ entity \in Entities
          /\ metadata_map \in MetadataMaps
          /\ api_names = InitApiNames(options)
    /\ pc = "start"
    /\ phases = <<>>
    /\ tempdir = FALSE
    /\ retrieve_dir = FALSE
    /\ deploy_dir = FALSE
    /\ retrieved = {}
    /\ retrieved_dirs = {}
    /\ deployed = {}
    /\ package_xml = <<>>
    /\ retrieve_calls = <<>>
    /\ deploy_calls = 0
    /\ directory = ""
    /\ extension = ""
    /\ removed_api_names = {}
    /\ pending = {}
    /\ log = <<>>
    /\ error = NoError
    /\ result = NoResult
    /\ post_deploy_arg = <<>>
    /\ RenderIdle
    /\ TreeIdle

(* ---------------------------------------------------------------------- *)
(* Manifests                                                                *)
(* ---------------------------------------------------------------------- *)

Block(name, members) == [name |-> name, members |-> members]

Manifest(types, version) == [types |-> types, version |-> version]

\* a _get_entities that leaves the wildcard out of what it declares
GetEntitiesNoWildcard ==
    CASE variant = "single" -> <<Block(entity, api_names \ {Wildcard})>>
      [] variant = "transform" -> <<Block("Layout", {<<"x">>})>>
      [] OTHER -> <<>>

\* _get_entities: the dict of entity types and API names, in iteration order,
\* with the API names as the set they are
GetEntities ==
    CASE variant = "single" -> <<Block(entity, api_names)>>
      [] variant = "transform" -> <<Block("Layout", {<<"x">>})>>
      [] OTHER -> <<>>

\* BaseMetadataTransformTask._get_types_package_xml: one <types> block per
\* entity, its members sorted
GetTypesPackageXml ==
    [i \in 1..Len(GetEntities) |->
        Block(GetEntities[i].name, sorted(GetEntities[i].members))]

\* BaseMetadataTransformTask._get_package_xml_content
GetPackageXmlContent == Manifest(GetTypesPackageXml, ApiVersion)

\* _inject_namespace over the text of a manifest: tokens do not span elements
InjectManifest(m) ==
    Manifest(
        [i \in 1..Len(m.types) |->
            Block(m.types[i].name,
                  [j \in 1..Len(m.types[i].members) |->
                      InjectNamespace(m.types[i].members[j], options)])],
        m.version)

\* PackageXmlGenerator(str(self.deploy_dir), self.api_version)(): the manifest
\* of the files found below deploy_dir, one block per directory
ScanDeployDir ==
    LET order == SelectSeq(<<"layouts", "objects">>, LAMBDA d : \E f \in deployed : f.dir = d)
    IN  Manifest(
            [i \in 1..Len(order) |->
                Block(order[i], sorted({f.stem : f \in {g \in deployed : g.dir = order[i]}}))],
            ApiVersion)

\* a _generate_package_xml that no class overrides
GeneratePackageXmlDeclared(operation) ==
    CASE variant = "custom" -> Manifest(<<>>, ApiVersion)
      [] OTHER -> InjectManifest(GetPackageXmlContent)

\* _generate_package_xml(operation) of the task's class
GeneratePackageXml(operation) ==
    CASE variant = "synthesis" -> ScanDeployDir
      [] variant = "custom" -> Manifest(<<>>, ApiVersion)
      [] OTHER -> InjectManifest(GetPackageXmlContent)

(* ---------------------------------------------------------------------- *)
(* _run_task                                                                *)
(* ---------------------------------------------------------------------- *)

\* an exception that is caught where it arises, the step being taken again
RaiseAndRetry(e) ==
    /\ pc' = pc
    /\ error' = NoError

Raise(e) ==
    /\ pc' = "exit"
    /\ error' = e

\* with tempfile.TemporaryDirectory() as tempdir:
EnterTempdir ==
    /\ pc = "start"
    /\ tempdir' = TRUE
    /\ pc' = "stage"
    /\ UNCHANGED << config, aside, hook, api_names, phases, retrieve_dir, deploy_dir,
                    retrieved, retrieved_dirs, deployed, package_xml,
                    retrieve_calls, deploy_calls, directory, extension,
                    removed_api_names, pending, log, error >>

\* the step of _run_task after _create_directories, taken unconditionally
AfterStageAlwaysRetrieve(r) == "retrieve"

\* if self.retrieve: self._retrieve()
AfterStage(r) == IF r THEN "retrieve" ELSE "transform"

\* if self.deploy: ...
AfterTransform(d) == IF d THEN "deploy" ELSE "exit"

\* _create_directories; a mkdir that fails leaves what was made before it
CreateDirectories ==
    /\ pc = "stage"
    /\ phases' = Append(phases, "STAGE")
    /\ \/ /\ retrieve_dir' = retrieve
          /\ deploy_dir' = deploy
          /\ pc' = AfterStage(retrieve)
          /\ UNCHANGED error
       \/ /\ retrieve \/ deploy
          /\ retrieve_dir' \in {retrieve /\ deploy, FALSE}
          /\ deploy_dir' = FALSE
          /\ Raise(Error("OSError"))
    /\ UNCHANGED << config, aside, hook, api_names, tempdir, retrieved, retrieved_dirs,
                    deployed, package_xml, retrieve_calls, deploy_calls,
                    directory, extension, removed_api_names, pending, log >>

\* the API names a retrieve manifest asks for, other than the wildcard
RequestedStems(m) ==
    UNION {Range(m.types[i].members) : i \in 1..Len(m.types)} \ {Wildcard}

\* whether the manifest asks for every instance
RequestsAll(m) == \E i \in 1..Len(m.types) : Wildcard \in Range(m.types[i].members)

\* what the org may send for a manifest: files named as asked, and for the
\* wildcard any of its files, each below some directory with some extension
Archives(m) ==
    LET stems == RequestedStems(m) \cup (IF RequestsAll(m) THEN OrgStems ELSE {})
        files == {File(d, st, x) : d \in Directories, st \in stems, x \in Extensions}
    IN  SubsetsUpTo(files, MaxFiles)

\* _retrieve: the call of ApiRetrieveUnpackaged and extractall
Retrieve ==
    /\ pc = "retrieve"
    /\ phases' = Append(phases, "RETRIEVE")
    /\ retrieve_calls' =
           Append(retrieve_calls,
                  [package_xml |-> GeneratePackageXml("retrieve"),
                   api_version |-> ApiVersion])
    /\ \/ /\ \E archive \in Archives(GeneratePackageXml("retrieve")) :
                 /\ retrieved' = archive
                 /\ \E empty \in {{}, Directories} :
                        retrieved_dirs' = {f.dir : f \in archive} \cup empty
          /\ pc' = "transform"
          /\ UNCHANGED error
       \/ /\ Raise(Error("retrieve"))
          /\ UNCHANGED << retrieved, retrieved_dirs >>
    /\ UNCHANGED << config, aside, hook, api_names, tempdir, retrieve_dir, deploy_dir,
                    deployed, package_xml, deploy_calls, directory, extension,
                    removed_api_names, pending, log >>

(* ---------------------------------------------------------------------- *)
(* MetadataSingleEntityTransformTask._transform                             *)
(* ---------------------------------------------------------------------- *)

SupportedClasses == {"MetadataFilenameParser", "CustomObjectParser"}

\* entity_configurations: the directories of the groups that hold an entry of
\* the entity type, in the order of the map
EntityConfigurations(map, ent) ==
    LET holds(g) == \E k \in 1..Len(g.entries) : g.entries[k].type = ent
        groups == SelectSeq(map, holds)
    IN  [i \in 1..Len(groups) |-> groups[i].dir]

GroupOf(map, dir) == CHOOSE i \in 1..Len(map) : map[i].dir = dir

\* configuration = parser.metadata_map[entity_configurations[0]][0]
Configuration(map, ent) ==
    map[GroupOf(map, EntityConfigurations(map, ent)[1])].entries[1]

\* lines 235 to 263: the error raised, or the directory and the extension
Resolve(map, ent) ==
    IF EntityConfigurations(map, ent) = <<>>
    THEN [error |-> "unable_to_locate", directory |-> "", extension |-> ""]
    ELSE IF Configuration(map, ent).class \notin SupportedClasses
         THEN [error |-> "unsupported", directory |-> "", extension |-> ""]
         ELSE [error |-> "none",
               directory |-> EntityConfigurations(map, ent)[1],
               extension |-> Configuration(map, ent).extension]

TransformResolve ==
    /\ pc = "transform"
    /\ variant = "single"
    /\ phases' = Append(phases, "TRANSFORM")
    /\ LET r == Resolve(metadata_map, entity)
       IN  IF r.error # "none"
           THEN /\ Raise(Error(r.error))
                /\ UNCHANGED << directory, extension >>
           ELSE /\ directory' = r.directory
                /\ extension' = r.extension
                /\ pc' = "expand"
                /\ UNCHANGED error
    /\ UNCHANGED << config, aside, hook, api_names, tempdir, retrieve_dir, deploy_dir,
                    retrieved, retrieved_dirs, deployed, package_xml,
                    retrieve_calls, deploy_calls, removed_api_names, pending,
                    log >>

\* the stems of the files of source_metadata_dir with the suffix .extension
RetrievedStems(dir, ext) ==
    {f.stem : f \in {g \in retrieved : g.dir = dir /\ g.ext = ext}}

\* an expansion that takes every file of the directory, whatever its suffix
ExpandAnySuffix(names, dir, ext) ==
    (names \ {Wildcard}) \cup {f.stem : f \in {g \in retrieved : g.dir = dir}}

\* lines 269 to 274
Expand(names, dir, ext) == (names \ {Wildcard}) \cup RetrievedStems(dir, ext)

\* lines 266 to 276; iterdir of a directory that does not exist raises after
\* the wildcard has been removed
TransformExpand ==
    /\ pc = "expand"
    /\ IF Wildcard \in api_names
       THEN IF directory \in retrieved_dirs
            THEN /\ api_names' = Expand(api_names, directory, extension)
                 /\ pending' = api_names'
                 /\ pc' = "loop"
                 /\ UNCHANGED error
            ELSE /\ api_names' = api_names \ {Wildcard}
                 /\ Raise(ErrorAt("FileNotFoundError", File(directory, <<>>, "")))
                 /\ UNCHANGED pending
       ELSE /\ pending' = api_names
            /\ pc' = "loop"
            /\ UNCHANGED << api_names, error >>
    /\ removed_api_names' = {}
    /\ UNCHANGED << config, aside, hook, phases, tempdir, retrieve_dir, deploy_dir,
                    retrieved, retrieved_dirs, deployed, package_xml,
                    retrieve_calls, deploy_calls, directory, extension, log >>

\* what _transform_entity, the parser before it, may do with one file
Outcomes == {"ParseError", "raised", "document", "None"}

Iteration(name, path, called, arg, outcome) ==
    [api_name |-> name, path |-> path, called |-> called, arg |-> arg,
     outcome |-> outcome]

\* unquoted_api_name = unquote(api_name)
CallbackArg(name) == unquote(name)

\* for api_name in self.api_names: a set is visited in an arbitrary order
NextNames(names) == names

\* a loop that goes on to the callback when the source file is missing
SourceExistsAlways(path) == TRUE

\* path.exists()
SourceExists(path) == path \in retrieved

\* a loop that writes a file for a suppressed instance too
IsWrittenAlways(outcome) == TRUE

\* if transformed_xml:
IsWritten(outcome) == outcome = "document"

\* removed_api_names.add(api_name)
RemovedAfter(removed, name) == removed \cup {name}

\* one iteration of the for loop, lines 278 to 305
TransformEntity ==
    /\ pc = "loop"
    /\ pending # {}
    /\ \E api_name \in NextNames(pending) :
         LET path == File(directory, api_name, extension)
         IN  /\ pending' = pending \ {api_name}
             /\ IF ~SourceExists(path)
                THEN /\ Raise(ErrorAt("missing", path))
                     /\ log' = Append(log, Iteration(api_name, path, FALSE, <<>>, "missing"))
                     /\ UNCHANGED << deployed, removed_api_names >>
                ELSE \E outcome \in Outcomes :
                       /\ log' = Append(log,
                              Iteration(api_name, path, outcome # "ParseError",
                                        IF outcome # "ParseError"
                                        THEN CallbackArg(api_name) ELSE <<>>,
                                        outcome))
                       /\ CASE outcome = "ParseError" ->
                                 /\ Raise(ErrorAt("ParseError", path))
                                 /\ UNCHANGED << deployed, removed_api_names >>
                            [] outcome = "raised" ->
                                 /\ Raise(Error("callback"))
                                 /\ UNCHANGED << deployed, removed_api_names >>
                            [] OTHER ->
                                 /\ IF IsWritten(outcome)
                                    THEN /\ deployed' = deployed \cup {path}
                                         /\ UNCHANGED removed_api_names
                                    ELSE /\ removed_api_names' =
                                                RemovedAfter(removed_api_names, api_name)
                                         /\ UNCHANGED deployed
                                 /\ UNCHANGED << pc, error >>
    /\ UNCHANGED << config, aside, hook, api_names, phases, tempdir, retrieve_dir,
                    deploy_dir, retrieved, retrieved_dirs, package_xml,
                    retrieve_calls, deploy_calls, directory, extension >>

\* a last line that leaves the suppressed names in
SurvivingAll(names, removed) == names

\* self.api_names = self.api_names - removed_api_names
Surviving(names, removed) == names \ removed

TransformFinish ==
    /\ pc = "loop"
    /\ pending = {}
    /\ api_names' = Surviving(api_names, removed_api_names)
    /\ pc' = AfterTransform(deploy)
    /\ UNCHANGED << config, aside, hook, phases, tempdir, retrieve_dir, deploy_dir,
                    retrieved, retrieved_dirs, deployed, package_xml,
                    retrieve_calls, deploy_calls, directory, extension,
                    removed_api_names, pending, log, error >>

(* ---------------------------------------------------------------------- *)
(* The other variants' _transform, _deploy, _post_deploy and the way out    *)
(* ---------------------------------------------------------------------- *)

\* files a caller-supplied _transform or _synthesize may create
CallerFiles ==
    {File(d, <<"x">>, "layout") : d \in Directories}
    \cup {File("layouts", <<NamespaceToken, "x">>, "layout")}

\* _transform of a task that is no single-entity task: the caller's routine,
\* which for the synthesis variant is _synthesize
TransformCallback ==
    /\ pc = "transform"
    /\ variant # "single"
    /\ phases' = Append(phases, "TRANSFORM")
    /\ \/ /\ \E files \in SUBSET CallerFiles :
                 /\ files # {} => deploy_dir
                 /\ deployed' = deployed \cup files
          /\ pc' = AfterTransform(deploy)
          /\ UNCHANGED error
       \/ /\ Raise(Error("callback"))
          /\ UNCHANGED deployed
    /\ UNCHANGED << config, aside, hook, api_names, tempdir, retrieve_dir, deploy_dir,
                    retrieved, retrieved_dirs, package_xml, retrieve_calls,
                    deploy_calls, directory, extension, removed_api_names,
                    pending, log >>

\* result = api(): what the call of Deploy number n returned
DeployResult(n) == [call |-> n]

\* _deploy: package.xml is written, then Deploy is called
Deploy ==
    /\ pc = "deploy"
    /\ phases' = Append(phases, "DEPLOY")
    /\ package_xml' = <<GeneratePackageXml("deploy")>>
    /\ deploy_calls' = deploy_calls + 1
    /\ \/ /\ result' = DeployResult(deploy_calls + 1)
          /\ pc' = "post_deploy"
          /\ UNCHANGED error
       \/ /\ Raise(Error("deploy"))
          /\ UNCHANGED result
    /\ UNCHANGED << config, aside, post_deploy_arg, api_names, tempdir,
                    retrieve_dir, deploy_dir, retrieved, retrieved_dirs,
                    deployed, retrieve_calls, directory, extension,
                    removed_api_names, pending, log >>

\* a hand-over that passes nothing on
PostDeployArgumentNone(res) == NoResult

\* self._post_deploy(result)
PostDeployArgument(res) == res

\* _post_deploy(result): nothing in the base class, a subclass's hook may raise
PostDeploy ==
    /\ pc = "post_deploy"
    /\ phases' = Append(phases, "POST_DEPLOY")
    /\ post_deploy_arg' = <<PostDeployArgument(result)>>
    /\ \/ /\ pc' = "exit"
          /\ UNCHANGED error
       \/ Raise(Error("post_deploy"))
    /\ UNCHANGED << config, aside, result, api_names, tempdir, retrieve_dir,
                    deploy_dir, retrieved, retrieved_dirs, deployed,
                    package_xml, retrieve_calls, deploy_calls, directory,
                    extension, removed_api_names, pending, log >>

\* a clean-up that runs on the way out of a successful run only
ExistsAfterExitOnError(exists, e) == exists /\ e # NoError

\* TemporaryDirectory.__exit__ removes the directory and all below it,
\* whether or not an exception is passing through
ExistsAfterExit(exists, e) == FALSE

\* the end of the with block
ExitTempdir ==
    /\ pc = "exit"
    /\ tempdir' = ExistsAfterExit(tempdir, error)
    /\ retrieve_dir' = ExistsAfterExit(retrieve_dir, error)
    /\ deploy_dir' = ExistsAfterExit(deploy_dir, error)
    /\ retrieved' = {f \in retrieved : retrieve_dir'}
    /\ retrieved_dirs' = {d \in retrieved_dirs : retrieve_dir'}
    /\ deployed' = {f \in deployed : deploy_dir'}
    /\ package_xml' = IF deploy_dir' THEN package_xml ELSE <<>>
    /\ pc' = "done"
    /\ UNCHANGED << config, aside, hook, api_names, phases, retrieve_calls, deploy_calls,
                    directory, extension, removed_api_names, pending, log,
                    error >>

Next ==
    \/ EnterTempdir
    \/ CreateDirectories
    \/ Retrieve
    \/ TransformResolve
    \/ TransformExpand
    \/ TransformEntity
    \/ TransformFinish
    \/ TransformCallback
    \/ Deploy
    \/ PostDeploy
    \/ ExitTempdir

Spec == Init /\ [][Next]_vars

(* ---------------------------------------------------------------------- *)
(* Shorthands of the properties                                             *)
(* ---------------------------------------------------------------------- *)

(* ---------------------------------------------------------------------- *)
(* The text of a manifest                                                   *)
(* ---------------------------------------------------------------------- *)

\* largest number of entity types of a rendered dict
MaxTypes == 2

\* largest number of API names of one entity type of a rendered dict
MaxMembers == 3

\* the lines of a manifest: a lone tag, or an element with its text
Line(kind, text) == [kind |-> kind, text |-> text]

\* f"        <members>{api_name}</members>" for each name of a sequence
MemberLines(names) == [j \in 1..Len(names) |-> Line("members", names[j])]

RECURSIVE reversed(_)
\* a sequence back to front
reversed(s) == IF s = <<>> THEN <<>> ELSE Append(reversed(Tail(s)), Head(s))

RECURSIVE TypesTextDescending(_)
\* a _get_types_package_xml that lists the members in descending order
TypesTextDescending(ents) ==
    IF ents = <<>> THEN <<>>
    ELSE <<Line("<types>", <<>>)>>
         \o MemberLines(reversed(sorted(Head(ents).members)))
         \o <<Line("name", <<Head(ents).name>>), Line("</types>", <<>>)>>
         \o TypesTextDescending(Tail(ents))

RECURSIVE TypesText(_)
\* BaseMetadataTransformTask._get_types_package_xml over the items of a dict:
\* base.format(members=..., name=entity) for each, appended in turn
TypesText(ents) ==
    IF ents = <<>> THEN <<>>
    ELSE <<Line("<types>", <<>>)>>
         \o MemberLines(sorted(Head(ents).members))
         \o <<Line("name", <<Head(ents).name>>), Line("</types>", <<>>)>>
         \o TypesText(Tail(ents))

\* BaseMetadataTransformTask._get_package_xml_content
PackageXmlText(ents, v) ==
    <<Line("<?xml?>", <<>>), Line("<Package>", <<>>)>>
    \o TypesText(ents)
    \o <<Line("version", v), Line("</Package>", <<>>)>>

\* entity types and API names a _get_entities may declare
RenderTypes == {"Layout", "CustomObject", "Flow"}

RenderNames == {Wildcard, <<"x">>, <<"x", "y">>, <<"X">>}

RenderVersions == {ApiVersion, <<"4", "9", ".", "0">>}

\* the dicts of up to MaxTypes entity types, each with up to MaxMembers
\* API names, in every insertion order
EntityMaps ==
    UNION { { e \in [1..n -> {Block(t, ms) : t \in RenderTypes,
                                             ms \in SubsetsUpTo(RenderNames, MaxMembers)}] :
                  \A i, j \in 1..n : i # j => e[i].name # e[j].name }
            : n \in 0..MaxTypes }

InitRender ==
    /\ entities \in EntityMaps
    /\ api_version \in RenderVersions
    /\ rendered = <<>>
    /\ RunIdle
    /\ TreeIdle

\* a call of _get_package_xml_content
Render ==
    /\ rendered' = <<PackageXmlText(entities, api_version)>>
    /\ UNCHANGED << runVars, treeVars, entities, api_version >>

NextRender == Render

SpecRender == InitRender /\ [][NextRender]_vars

(* ---------------------------------------------------------------------- *)
(* get_new_tag_index                                                        *)
(* ---------------------------------------------------------------------- *)

\* largest number of children of the root of a document
MaxChildren == 4

\* largest number of elements a caller inserts
MaxInsertions == 2

Tags == {"T", "X"}

\* an element below the root: its tag, the tags of its own children, and
\* whether the caller put it there
Element(t, kids, new) == [tag |-> t, children |-> kids, new |-> new]

\* what an element below the root may hold
Nested == {<<>>, <<"T">>, <<"X">>, <<"X", "T">>}

\* the documents of up to MaxChildren elements below the root
Documents ==
    UNION { [1..n -> {Element(t, kids, FALSE) : t \in Tags, kids \in Nested}]
            : n \in 0..MaxChildren }

\* the elements of one child's subtree that carry the tag, in document
\* order, each as its path from the root: <<i>> or <<i, j>>
MatchesBelow(rt, t, i) ==
    (IF rt[i].tag = t THEN << <<i>> >> ELSE <<>>)
    \o [k \in 1..Len(SelectSeq(rt[i].children, LAMBDA c : c = t)) |->
           <<i, CHOOSE j \in 1..Len(rt[i].children) :
                    /\ rt[i].children[j] = t
                    /\ Cardinality({h \in 1..j : rt[i].children[h] = t}) = k>>]

RECURSIVE findallFrom(_, _, _)
findallFrom(rt, t, i) ==
    IF i > Len(rt) THEN <<>>
    ELSE MatchesBelow(rt, t, i) \o findallFrom(rt, t, i + 1)

\* tree.findall(f".//{namespace}{tag}"): every descendant of the root that
\* carries the tag, in document order
findall(rt, t) == findallFrom(rt, t, 1)

\* list(tree.getroot()).index(el), counted from 0: el is found only if it
\* is itself a child of the root
index(el) ==
    IF Len(el) = 1 THEN [kind |-> "index", value |-> el[1] - 1]
    ELSE [kind |-> "ValueError"]

\* get_new_tag_index(tree, tag)
get_new_tag_index(rt, t) ==
    LET tags == findall(rt, t)
    IN  IF tags # <<>>
        THEN IF index(tags[Len(tags)]).kind = "index"
             THEN [kind |-> "index", value |-> index(tags[Len(tags)]).value + 1]
             ELSE index(tags[Len(tags)])
        ELSE [kind |-> "index", value |-> Len(rt)]

\* tree.getroot().insert(i, el), i counted from 0
insert(rt, i, el) == SubSeq(rt, 1, i) \o <<el>> \o SubSeq(rt, i + 1, Len(rt))

\* what an element the caller inserts may hold
NewKids == {<<>>, <<"X">>, <<"T">>}

InitTree ==
    /\ root \in Documents
    /\ tag = "T"
    /\ found = [kind |-> "none"]
    /\ inserted_at = <<>>
    /\ RunIdle
    /\ RenderIdle

\* a caller asks where a new element with the tag goes
CallGetNewTagIndex ==
    /\ found.kind = "none"
    /\ found' = get_new_tag_index(root, tag)
    /\ UNCHANGED << runVars, renderVars, root, tag, inserted_at >>

\* the caller inserts a new element with the tag at the index it was given
InsertNewTag ==
    /\ found.kind = "index"
    /\ Cardinality({i \in 1..Len(root) : root[i].new}) < MaxInsertions
    /\ \E kids \in NewKids :
           root' = insert(root, found.value, Element(tag, kids, TRUE))
    /\ inserted_at' = <<found.value>>
    /\ found' = [kind |-> "none"]
    /\ UNCHANGED << runVars, renderVars, tag >>

NextTree ==
    \/ CallGetNewTagIndex
    \/ InsertNewTag

SpecTree == InitTree /\ [][NextTree]_vars

LinearOrder == <<"STAGE", "RETRIEVE", "TRANSFORM", "DEPLOY", "POST_DEPLOY">>

Rank(phase) == CHOOSE i \in 1..Len(LinearOrder) : LinearOrder[i] = phase

Executed(phase) == phase \in Range(phases)

\* the run left _run_task without an exception
EndedWell == pc \in {"exit", "done"} /\ error = NoError

Visited == {log[i].api_name : i \in 1..Len(log)}

Called == {log[i].api_name : i \in {j \in 1..Len(log) : log[j].called}}

Suppressed == {log[i].api_name : i \in {j \in 1..Len(log) : log[j].outcome = "None"}}

\* the user-facing names of the api_names option, namespace injected
UserFacing == {InjectNamespace(a, options) : a \in ApiNamesOption(options)}

\* the requested membership in path-safe form, as the task holds it before a run
Requested == InitApiNames(options)

\* the files of retrieveRoot/directory with the resolved extension
MatchingStems ==
    {f.stem : f \in {g \in retrieved : g.dir = directory /\ g.ext = extension}}

\* the name set the wildcard stands for, with the names asked for by name
ExpandedSet ==
    (Requested \ {Wildcard}) \cup (IF Wildcard \in Requested THEN MatchingStems ELSE {})

\* the entry of the first group whose type is the entity type
MatchingConfiguration(map, ent) ==
    LET g == map[GroupOf(map, EntityConfigurations(map, ent)[1])]
        k == CHOOSE k \in 1..Len(g.entries) :
                 /\ g.entries[k].type = ent
                 /\ \A j \in 1..(k - 1) : g.entries[j].type # ent
    IN  g.entries[k]

\* the single-entity transform has returned and the staging area still stands
TransformReturned == variant = "single" /\ pc \in {"deploy", "post_deploy"}

(* ---------------------------------------------------------------------- *)
(* C1                                                                       *)
(* ---------------------------------------------------------------------- *)

\* C1: in every variant the phases run in the order STAGE, RETRIEVE,
\* TRANSFORM, DEPLOY, POST_DEPLOY, none twice and none after a later one;
\* RETRIEVE runs only with the retrieve flag and, in a run that reaches
\* TRANSFORM, whenever the flag is set; DEPLOY and POST_DEPLOY run only with
\* the deploy flag; a run that ends without an error has run TRANSFORM
\* whatever the flags, RETRIEVE exactly with the retrieve flag and DEPLOY and
\* POST_DEPLOY exactly with the deploy flag.
C1_PhasesLinear ==
    /\ \A i, j \in 1..Len(phases) : i < j => Rank(phases[i]) < Rank(phases[j])
    /\ phases # <<>> => phases[1] = "STAGE"
    /\ Executed("RETRIEVE") => retrieve
    /\ Executed("TRANSFORM") => (Executed("RETRIEVE") <=> retrieve)
    /\ Executed("DEPLOY") \/ Executed("POST_DEPLOY") => deploy
    /\ Executed("DEPLOY") => Executed("TRANSFORM")
    /\ Executed("POST_DEPLOY") => Executed("DEPLOY")
    /\ EndedWell =>
          /\ Executed("TRANSFORM")
          /\ Executed("RETRIEVE") <=> retrieve
          /\ Executed("DEPLOY") <=> deploy
          /\ Executed("POST_DEPLOY") <=> deploy

C1_Witness ==
    /\ pc = "done"
    /\ error = NoError
    /\ ~retrieve
    /\ deploy
    /\ phases = <<"STAGE", "TRANSFORM", "DEPLOY", "POST_DEPLOY">>

(* ---------------------------------------------------------------------- *)
(* C2                                                                       *)
(* ---------------------------------------------------------------------- *)

\* C2: once the run has ended, by normal completion or by a failure raised
\* in any phase, the temporary directory, retrieveRoot and deployRoot and
\* everything in them are gone; a failure always leads to the way out.
C2_StagingRemoved ==
    /\ error # NoError => pc \in {"exit", "done"}
    /\ pc = "done" =>
          /\ ~tempdir
          /\ ~retrieve_dir
          /\ ~deploy_dir
          /\ retrieved = {}
          /\ retrieved_dirs = {}
          /\ deployed = {}
          /\ package_xml = <<>>

C2_Witness ==
    /\ pc = "done"
    /\ error = Error("post_deploy")
    /\ retrieve
    /\ deploy
    /\ \E i \in 1..Len(log) : log[i].outcome = "document"

(* ---------------------------------------------------------------------- *)
(* C3                                                                       *)
(* ---------------------------------------------------------------------- *)

\* C3: in the single-entity variant, once DEPLOY has written the manifest,
\* its only block is the entity type's and the members of that block are
\* exactly the names whose file the transform wrote below
\* deployRoot/directory; the wildcard is no member and no suppressed name is.
C3_ManifestIsSurvivors ==
    variant = "single" /\ package_xml # <<>> =>
        LET m == package_xml[1]
        IN  /\ Len(m.types) = 1
            /\ m.types[1].name = entity
            /\ Range(m.types[1].members) =
                   {f.stem : f \in {g \in deployed : g.dir = directory}}
            /\ Wildcard \notin Range(m.types[1].members)
            /\ Range(m.types[1].members) \cap Suppressed = {}

C3_Witness ==
    /\ variant = "single"
    /\ package_xml # <<>>
    /\ Wildcard \in Requested
    /\ Suppressed # {}
    /\ Range(package_xml[1].types[1].members) # {}

(* ---------------------------------------------------------------------- *)
(* C4                                                                       *)
(* ---------------------------------------------------------------------- *)

\* C4: when the transform returns, every name of the expanded set was
\* visited; the membership it leaves is the expanded set minus the names
\* the callback suppressed; no file below deployRoot has a suppressed name
\* and deployRoot/directory/n.extension exists for every other name n.
C4_Suppression ==
    TransformReturned =>
        /\ Visited = ExpandedSet
        /\ Called = ExpandedSet
        /\ api_names = ExpandedSet \ Suppressed
        /\ \A f \in deployed : f.stem \notin Suppressed
        /\ \A n \in ExpandedSet \ Suppressed :
               File(directory, n, extension) \in deployed

\* the first name visited was suppressed and the second was written
C4_Witness ==
    /\ TransformReturned
    /\ Len(log) = 2
    /\ log[1].outcome = "None"
    /\ log[2].outcome = "document"
    /\ api_names = {log[2].api_name}

(* ---------------------------------------------------------------------- *)
(* C5                                                                       *)
(* ---------------------------------------------------------------------- *)

\* C5: no callback has run before the expansion; after it and until the
\* transform returns, the name set is the requested set without the
\* wildcard, joined, if the wildcard was requested, with the stems of the
\* files of retrieveRoot/directory that have the resolved extension and of
\* no others; without the wildcard it is the requested set.
C5_WildcardExpansion ==
    /\ pc = "expand" => log = <<>> /\ api_names = Requested
    /\ pc = "loop" =>
          /\ api_names = ExpandedSet
          /\ Wildcard \notin api_names
          /\ Wildcard \notin Requested => api_names = Requested
          /\ Visited \cup pending = api_names

\* the wildcard was requested with a name, and the directory holds a file
\* of another name with the extension and one with another extension
C5_Witness ==
    /\ pc = "loop"
    /\ log = <<>>
    /\ Wildcard \in Requested
    /\ Requested # {Wildcard}
    /\ \E f \in retrieved :
           f.dir = directory /\ f.ext = extension /\ f.stem \notin Requested
    /\ \E f \in retrieved :
           f.dir = directory /\ f.ext # extension /\ f.stem \notin api_names

(* ---------------------------------------------------------------------- *)
(* C6                                                                       *)
(* ---------------------------------------------------------------------- *)

\* C6: the instances of the entity type are visited (looked up, parsed,
\* handed to the callback, written) in ascending sorted order of their names.
C6_SortedOrder ==
    \A i, j \in 1..Len(log) :
        i < j => StrLess(log[i].api_name, log[j].api_name)

(* ---------------------------------------------------------------------- *)
(* C7                                                                       *)
(* ---------------------------------------------------------------------- *)

\* the run ended in a configuration error that the catalog bears out: no
\* group holds the entity type, or the entry of the type is of an unsupported
\* convention class
ConfigurationError ==
    \/ /\ error.kind = "unable_to_locate"
       /\ EntityConfigurations(metadata_map, entity) = <<>>
    \/ /\ error.kind = "unsupported"
       /\ MatchingConfiguration(metadata_map, entity).class \notin SupportedClasses

\* C7: in a run that a configuration error aborts, the external retrieve call
\* is never made, the transform reads and writes no file of the staging area
\* and DEPLOY is never reached.
C7_ConfigErrorBeforeIO ==
    ConfigurationError =>
        /\ retrieve_calls = <<>>
        /\ log = <<>>
        /\ deployed = {}
        /\ ~Executed("DEPLOY")

(* ---------------------------------------------------------------------- *)
(* C8                                                                       *)
(* ---------------------------------------------------------------------- *)

\* the expansion is over and the for loop has ended, by its end or by an error
LoopLeft ==
    /\ variant = "single"
    /\ Executed("TRANSFORM")
    /\ pc \in {"deploy", "post_deploy", "exit"}
    /\ error.kind \notin {"unable_to_locate", "unsupported"}
    /\ error.kind # "FileNotFoundError"

\* the names of the expanded set without a file retrieveRoot/directory/n.extension
Missing ==
    {n \in Visited \cup pending : File(directory, n, extension) \notin retrieved}

\* C8 as stated: if a name n of the expanded set has no source file, the
\* transform fails with the error naming n's expected path; the callback is
\* not called for n, no manifest is written and no deploy call is made.
C8_MissingNamesItsPath ==
    LoopLeft =>
        \A n \in Missing :
            /\ error = ErrorAt("missing", File(directory, n, extension))
            /\ n \notin Called
            /\ package_xml = <<>>
            /\ deploy_calls = 0

\* C8, amended: if a name n of the expanded set has no source file, the
\* transform fails and the run aborts at the first name of the visiting
\* order that fails: the callback is not called for n, no manifest is
\* written and no deploy call is made, wherever n comes in the order; the
\* error is the missing-file error naming n's path if n is that first
\* name, and otherwise the error of the name that failed before n was
\* reached (another missing file, a parse error or an error of the callback).
C8_MissingAborts ==
    LoopLeft =>
        \A n \in Missing :
            /\ pc = "exit"
            /\ error.kind \in {"missing", "ParseError", "callback"}
            /\ n \in Visited =>
                   /\ error = ErrorAt("missing", File(directory, n, extension))
                   /\ log[Len(log)].api_name = n
            /\ error.kind = "missing" =>
                   \E k \in Missing : error.path = File(directory, k, extension)
            /\ n \notin Called
            /\ package_xml = <<>>
            /\ deploy_calls = 0
            /\ ~Executed("DEPLOY")

\* the missing name came second, after a name whose file was written
C8_Witness ==
    /\ LoopLeft
    /\ Len(log) = 2
    /\ log[1].outcome = "document"
    /\ log[2].outcome = "missing"
    /\ error = ErrorAt("missing", log[2].path)
    /\ log[2].api_name \in Missing

(* ---------------------------------------------------------------------- *)
(* C9                                                                       *)
(* ---------------------------------------------------------------------- *)

\* C9: once the entity type has been resolved, the unsupported-entity error
\* was raised exactly if no group of the catalog holds the type; otherwise
\* the unsupported-convention error was raised exactly if the entry of the
\* type in the first such group is of no supported class, and else the
\* directory is that group's and the extension is that entry's.
C9_ResolvesMatchingEntry ==
    variant = "single" /\ Executed("TRANSFORM") =>
        LET groups == EntityConfigurations(metadata_map, entity)
        IN  /\ error.kind = "unable_to_locate" <=> groups = <<>>
            /\ groups # <<>> =>
                 LET m == MatchingConfiguration(metadata_map, entity)
                 IN  /\ error.kind = "unsupported" <=> m.class \notin SupportedClasses
                     /\ m.class \in SupportedClasses =>
                            /\ directory = groups[1]
                            /\ extension = m.extension

(* ---------------------------------------------------------------------- *)
(* C10                                                                      *)
(* ---------------------------------------------------------------------- *)

NameCharacters == {"x", " ", "(", "%", "2", "8"}

\* every text of at most MaxNameLen of these characters
Texts == UNION {[1..k -> NameCharacters] : k \in 0..MaxNameLen}

Spaces(s) == {i \in 1..Len(s) : s[i] = " "}

\* unquote undoes quote on every text, and quote leaves the spaces in
RoundTripOnTexts ==
    \A s \in Texts :
        /\ unquote(quote(s, {" "})) = s
        /\ Cardinality(Spaces(quote(s, {" "}))) = Cardinality(Spaces(s))

\* C10: unquote undoes quote on every name and quote keeps the spaces; the
\* names the task holds before a run unescape to exactly the user-facing
\* names of the option; every visit addresses the source file, and a write
\* the destination file, by the path-safe name, and the callback receives
\* the unescaped name, which for a name of the option is the user-facing
\* name as given.
C10_EscapingRoundTrip ==
    /\ RoundTripOnTexts
    /\ variant = "single" /\ pc \in {"start", "stage", "retrieve", "transform", "expand"} =>
           /\ {unquote(n) : n \in api_names \ {Wildcard}} = UserFacing \ {Wildcard}
           /\ Cardinality(api_names) = Cardinality(UserFacing)
    /\ \A i \in 1..Len(log) :
           /\ log[i].path = File(directory, log[i].api_name, extension)
           /\ log[i].called => log[i].arg = unquote(log[i].api_name)
           /\ log[i].outcome = "document" /\ pc # "done" =>
                  File(directory, log[i].api_name, extension) \in deployed
           /\ \A u \in UserFacing \ {Wildcard} :
                  log[i].called /\ log[i].api_name = quote(u, {" "}) => log[i].arg = u

\* a name with a parenthesis given in the option and one found by the
\* wildcard have both reached the callback unescaped
C10_Witness ==
    /\ Len(log) = 2
    /\ \E i \in 1..Len(log) :
           /\ log[i].arg = <<"x", " ", "(">>
           /\ log[i].api_name = <<"x", " ", "%", "2", "8">>
           /\ log[i].outcome = "document"
           /\ log[i].path \in deployed
    /\ \E i \in 1..Len(log) :
           /\ log[i].arg = <<"y", " ", "(">>
           /\ log[i].called
    /\ <<"x", " ", "(">> \in options.api_names

(* ---------------------------------------------------------------------- *)
(* C11                                                                      *)
(* ---------------------------------------------------------------------- *)

\* the members of the one block of a single-entity manifest
MembersOf(m) == Range(m.types[1].members)

\* C11: the manifest handed to the retrieve call of a single-entity task is
\* built from the membership as requested, before the wildcard is expanded
\* and before anything is suppressed: its one block is for the entity type,
\* its members are exactly the requested names, so a requested wildcard is a
\* member and no name discovered on disk that was not asked for is; it is
\* handed over with the target API version, which it also carries.
C11_RetrieveManifestAsRequested ==
    variant = "single" =>
        \A i \in 1..Len(retrieve_calls) :
            LET m == retrieve_calls[i].package_xml
            IN  /\ retrieve_calls[i].api_version = ApiVersion
                /\ m.version = ApiVersion
                /\ Len(m.types) = 1
                /\ m.types[1].name = entity
                /\ MembersOf(m) = Requested
                /\ Wildcard \in Requested =>
                       /\ Wildcard \in MembersOf(m)
                       /\ \A n \in api_names \ Requested : n \notin MembersOf(m)

\* a run that asked for the wildcard, retrieved, and expanded the wildcard
\* into a name that was found on disk
C11_Witness ==
    /\ variant = "single"
    /\ Wildcard \in Requested
    /\ Len(retrieve_calls) = 1
    /\ pc = "loop"
    /\ api_names \ Requested # {}
    /\ Wildcard \in MembersOf(retrieve_calls[1].package_xml)

(* ---------------------------------------------------------------------- *)
(* C12                                                                      *)
(* ---------------------------------------------------------------------- *)

\* C12: POST_DEPLOY runs only after the one call of Deploy has returned, and
\* it receives what that call returned; when the hook fails the run fails,
\* the deploy having succeeded, and no further deploy or retrieve call is
\* made: the calls stay the ones made before the hook ran.
C12_PostDeployAfterDeploy ==
    /\ Executed("POST_DEPLOY") =>
           /\ Executed("DEPLOY")
           /\ deploy_calls = 1
           /\ result = DeployResult(1)
           /\ post_deploy_arg = <<result>>
           /\ error.kind \in {"none", "post_deploy"}
    /\ post_deploy_arg # <<>> => Executed("POST_DEPLOY")
    /\ error.kind = "post_deploy" =>
           /\ pc \in {"exit", "done"}
           /\ phases[Len(phases)] = "POST_DEPLOY"
           /\ result = DeployResult(1)
           /\ deploy_calls = 1
           /\ Len(retrieve_calls) = (IF retrieve THEN 1 ELSE 0)

\* a run whose hook failed after a successful deploy, and which is over
C12_Witness ==
    /\ error.kind = "post_deploy"
    /\ pc = "done"
    /\ deploy_calls = 1
    /\ post_deploy_arg = <<DeployResult(1)>>

(* ---------------------------------------------------------------------- *)
(* C13                                                                      *)
(* ---------------------------------------------------------------------- *)

\* the line a block begins at, the lines before it being the two opening
\* lines and the blocks before it
RECURSIVE BlockStart(_, _)
BlockStart(ents, i) ==
    IF i = 1 THEN 3
    ELSE BlockStart(ents, i - 1) + Cardinality(ents[i - 1].members) + 3

\* C13: the text of a manifest is a function of the membership map and the
\* API version alone: after the two opening lines comes one block per entity
\* type, in the order of the map; a block is its opening line, one members
\* line per name of the type's set, in strictly ascending order, the name
\* line of the type and its closing line; one version line with the API
\* version follows the last block and the closing line ends the text. The
\* text depends on each set of names only through the set, so two renderings
\* of memberships that are equal as sets are the same text.
C13_ManifestText ==
    rendered # <<>> =>
        LET text == rendered[1]
            n == Len(entities)
            end == BlockStart(entities, n + 1)
        IN  /\ Len(text) = end + 1
            /\ text[1] = Line("<?xml?>", <<>>)
            /\ text[2] = Line("<Package>", <<>>)
            /\ text[end] = Line("version", api_version)
            /\ text[end + 1] = Line("</Package>", <<>>)
            /\ Cardinality({k \in 1..Len(text) : text[k].kind = "version"}) = 1
            /\ Cardinality({k \in 1..Len(text) : text[k].kind = "<types>"}) = n
            /\ \A i \in 1..n :
                   LET b == BlockStart(entities, i)
                       c == Cardinality(entities[i].members)
                   IN  /\ text[b] = Line("<types>", <<>>)
                       /\ \A j \in 1..c : text[b + j].kind = "members"
                       /\ {text[b + j].text : j \in 1..c} = entities[i].members
                       /\ \A j \in 1..(c - 1) : StrLess(text[b + j].text, text[b + j + 1].text)
                       /\ text[b + c + 1] = Line("name", <<entities[i].name>>)
                       /\ text[b + c + 2] = Line("</types>", <<>>)

\* the manifest of two entity types, the later-sorting type first, one of
\* them with several names, has been rendered
C13_Witness ==
    /\ rendered # <<>>
    /\ Len(entities) = 2
    /\ entities[1].name = "Layout"
    /\ entities[2].name = "CustomObject"
    /\ Cardinality(entities[1].members) = 3
    /\ Wildcard \in entities[1].members
    /\ entities[2].members = {}

(* ---------------------------------------------------------------------- *)
(* C14                                                                      *)
(* ---------------------------------------------------------------------- *)

\* the places below the root of the elements the caller has inserted
NewPlaces == {i \in 1..Len(root) : root[i].new}

\* the call of get_new_tag_index has returned
Returned == found.kind # "none"

\* C14: when get_new_tag_index has returned i and a new element with the tag
\* has been inserted below the root at i, the next call returns i + 1, after
\* the first insertion and after every later one; the inserted elements
\* stand in one unbroken row, which directly follows the last element with
\* the tag that was there before; and when no element carries the tag, the
\* first call returns the number of the root's children.
C14_RepeatedInsertion ==
    /\ Returned /\ inserted_at # <<>> =>
           /\ found.kind = "index"
           /\ found.value = inserted_at[1] + 1
    /\ Returned /\ inserted_at = <<>> /\ findall(root, tag) = <<>> =>
           /\ found.kind = "index"
           /\ found.value = Len(root)
    /\ \A i, j \in NewPlaces : \A k \in i..j : k \in NewPlaces
    /\ \A i \in NewPlaces :
           /\ root[i].tag = tag
           /\ \A k \in 1..Len(root) : k > i /\ k \notin NewPlaces => root[k].tag # tag

\* the same for the insertion of elements that hold no element with the tag
RepeatedInsertionOfPlain ==
    (\A i \in NewPlaces : \A j \in 1..Len(root[i].children) : root[i].children[j] # tag)
        => C14_RepeatedInsertion

(* ---------------------------------------------------------------------- *)
(* C15                                                                      *)
(* ---------------------------------------------------------------------- *)

\* the place, counted from 0, of the child of the root that is or holds the
\* last element with the tag
ContainingRootChild(rt, t) == findall(rt, t)[Len(findall(rt, t))][1] - 1

\* C15: every call of get_new_tag_index returns an index; when elements with
\* the tag exist anywhere below the root, be it below a wrapper that is a
\* child of the root, the index is one more than the place, among the
\* root's children, of the child that contains the last of them.
C15_IndexOfContainingChild ==
    Returned =>
        /\ found.kind = "index"
        /\ findall(root, tag) # <<>> =>
               found.value = ContainingRootChild(root, tag) + 1

(* ---------------------------------------------------------------------- *)
(* C16                                                                      *)
(* ---------------------------------------------------------------------- *)

\* the single-entity transform is past the expansion of the wildcard, the
\* staging area still standing
PastExpansion ==
    /\ variant = "single"
    /\ Executed("TRANSFORM")
    /\ ~ConfigurationError
    /\ error.kind \notin {"unable_to_locate", "unsupported"}
    /\ pc \in {"loop", "deploy", "post_deploy", "exit"}

\* C16: when the wildcard is the only requested member and retrieveRoot/
\* directory holds no file with the resolved extension, because it is empty,
\* holds files of other extensions only, or was not produced by the
\* retrieve, the expansion yields the empty set and the transform completes
\* without an error, calls the callback for no name and writes no file.
C16_EmptyExpansion ==
    PastExpansion /\ Requested = {Wildcard} /\ MatchingStems = {} =>
        /\ api_names = {}
        /\ pending = {}
        /\ log = <<>>
        /\ deployed = {}
        /\ error.kind \in {"none", "deploy", "post_deploy"}

\* the same where the retrieve has produced the directory
EmptyExpansionOfDirectory ==
    directory \in retrieved_dirs => C16_EmptyExpansion

(* ---------------------------------------------------------------------- *)
(* C17                                                                      *)
(* ---------------------------------------------------------------------- *)

\* the entries of a manifest, each a block's name with one of its members
Listed(m) ==
    UNION { {<<m.types[i].name, n>> : n \in Range(m.types[i].members)}
            : i \in 1..Len(m.types) }

\* C17: a synthesis task makes no retrieve call, runs no RETRIEVE phase and
\* has no retrieve directory; its TRANSFORM, the caller's synthesis routine,
\* has run before DEPLOY, and the manifest written for the deploy lists
\* exactly the files that are below deployRoot once the routine has
\* finished, whatever membership is declared (none is).
C17_SynthesisManifestFromFiles ==
    variant = "synthesis" =>
        /\ retrieve_calls = <<>>
        /\ ~Executed("RETRIEVE")
        /\ ~retrieve_dir
        /\ retrieved = {} /\ retrieved_dirs = {}
        /\ Executed("DEPLOY") => Executed("TRANSFORM")
        /\ package_xml # <<>> =>
               /\ Listed(package_xml[1]) = {<<f.dir, f.stem>> : f \in deployed}
               /\ package_xml[1].version = ApiVersion

\* a synthesis run whose routine created files in two directories and whose
\* manifest has been written
C17_Witness ==
    /\ variant = "synthesis"
    /\ pc = "post_deploy"
    /\ {f.dir : f \in deployed} = Directories
    /\ Len(package_xml) = 1
    /\ Len(package_xml[1].types) = 2

(* ---------------------------------------------------------------------- *)
(* C18                                                                      *)
(* ---------------------------------------------------------------------- *)

\* the phase the run was in when it ended
LastPhase == phases[Len(phases)]

\* how often a phase has been entered
Times(phase) == Cardinality({i \in 1..Len(phases) : phases[i] = phase})

\* C18: a failure of the retrieve call, of the transform or synthesis
\* callback, or of the deploy call ends the run with that failure: the run
\* is on its way out, the failure is the run's outcome, and the phase that
\* failed is the last one executed; nothing is retried: the retrieve call and
\* the deploy call are made at most once, each in its own phase, and no
\* phase is entered twice.
C18_FailStop ==
    /\ error # NoError => pc \in {"exit", "done"}
    /\ error.kind = "retrieve" => LastPhase = "RETRIEVE"
    /\ error.kind \in {"callback", "ParseError", "missing"} => LastPhase = "TRANSFORM"
    /\ error.kind = "deploy" => LastPhase = "DEPLOY"
    /\ Len(retrieve_calls) = Times("RETRIEVE")
    /\ deploy_calls = Times("DEPLOY")
    /\ \A i \in 1..Len(LinearOrder) : Times(LinearOrder[i]) <= 1

\* a run whose deploy call failed, after a retrieve and a transform, and
\* which is over
C18_Witness ==
    /\ error.kind = "deploy"
    /\ pc = "done"
    /\ phases = <<"STAGE", "RETRIEVE", "TRANSFORM", "DEPLOY">>
    /\ Len(retrieve_calls) = 1
    /\ deploy_calls = 1

(* ---------------------------------------------------------------------- *)
(* C19                                                                      *)
(* ---------------------------------------------------------------------- *)

\* the run of a single-entity task is over, and it ended without an error
RunOver == variant = "single" /\ pc = "done" /\ error = NoError

\* the membership is expanded once, before the first callback, and shrunk
\* once, after the last: all through the loop it is the expanded set, and
\* once the transform has returned it is the expanded set less the
\* suppressed names
ExpandedThenShrunk ==
    /\ variant = "single" /\ pc = "loop" => api_names = ExpandedSet
    /\ TransformReturned => api_names = ExpandedSet \ Suppressed

\* C19: a run leaves the task's configuration as it was: after a run, even
\* one in which nothing fails, the task holds the requested membership it
\* was constructed with, so that the retrieve manifest a further run of the
\* task builds is the one this run handed over; within the run the
\* membership is expanded once, before the first callback, and shrunk once,
\* after the last.
C19_ConfigurationKept ==
    /\ RunOver =>
           /\ api_names = Requested
           /\ retrieve_calls # <<>> =>
                  GeneratePackageXml("retrieve") = retrieve_calls[1].package_xml
    /\ ExpandedThenShrunk

(* ---------------------------------------------------------------------- *)
(* C20                                                                      *)
(* ---------------------------------------------------------------------- *)

\* the manifest of the task's class before any namespace injection
RawPackageXml ==
    CASE variant = "synthesis" -> ScanDeployDir
      [] variant = "custom" -> Manifest(<<>>, ApiVersion)
      [] OTHER -> GetPackageXmlContent

\* no namespace token is left in the manifest: the injector would change
\* nothing in it
TokenFree(m) == InjectManifest(m) = m

\* C20: in every task variant, each manifest handed to a retrieve call and
\* the manifest written for a deploy call is what the namespace injector,
\* with the run's prefix and managed flag, makes of the manifest the task
\* generated, so that no namespace token is left in it; and the entity files
\* below deployRoot are as the transform wrote them, the injector not having
\* been applied to them.
C20_ManifestsInjected ==
    /\ \A i \in 1..Len(retrieve_calls) : TokenFree(retrieve_calls[i].package_xml)
    /\ package_xml # <<>> =>
           /\ package_xml[1] = InjectManifest(RawPackageXml)
           /\ TokenFree(package_xml[1])
    /\ variant # "single" => deployed \subseteq CallerFiles
    /\ variant = "single" => {f.stem : f \in deployed} \subseteq Visited

====
